---- MODULE Spec2Model ----
(***************************************************************************)
(* Model of dependency_analyzer (src/src/main.rs): the manifest parsers,   *)
(* DependencyAnalyzer::add_dependency, DependencyAnalyzer::check_conflicts,*)
(* DependencyAnalyzer::generate_graph, the scan loop of                    *)
(* DependencyAnalyzer::scan_project and the steps of main.                 *)
(*                                                                         *)
(* A Rust String is a sequence of one-character strings, so that split,    *)
(* trim, replace and contains are computed the way the code computes them. *)
(* An Option<T> is a sequence of length 0 (None) or 1 (Some).              *)
(***************************************************************************)
EXTENDS Integers, Sequences, FiniteSets, Bags, TLC

(***************************************************************************)
(* Bound of the model: the number of directory entries one walk yields.    *)
(***************************************************************************)
MaxFiles == 3

(***************************************************************************)
(* String primitives used by the parsers.                                  *)
(***************************************************************************)
None == <<>>

Some(v) == <<v>>

IsSome(o) == Len(o) > 0

\* the delimiter set &['=', '>', '<', '~', '!'] of every split in the parsers
Delims == {"=", ">", "<", "~", "!"}

Drop(s, n) == SubSeq(s, n + 1, Len(s))

Take(s, n) == SubSeq(s, 1, n)

StartsWith(s, p) == Len(p) <= Len(s) /\ Take(s, Len(p)) = p

\* str::contains
Contains(s, sub) ==
    \E i \in 0..(Len(s) - Len(sub)) : SubSeq(s, i + 1, i + Len(sub)) = sub

\* position of the first character of s that is in the set D, 0 when none
FirstIn(s, D) ==
    IF \E i \in 1..Len(s) : s[i] \in D
    THEN CHOOSE i \in 1..Len(s) : s[i] \in D /\ \A j \in 1..(i - 1) : s[j] \notin D
    ELSE 0

\* str::split(D): the sequence of pieces between the characters of D
RECURSIVE Split(_, _)
Split(s, D) ==
    LET i == FirstIn(s, D)
    IN IF i = 0 THEN <<s>> ELSE <<Take(s, i - 1)>> \o Split(Drop(s, i), D)

\* str::split(D).next(): the piece before the first delimiter, always Some
SplitNext(s, D) == Split(s, D)[1]

\* str::split(D).nth(1): the second piece, None when there is no delimiter
SplitNth1(s, D) ==
    LET pieces == Split(s, D)
    IN IF Len(pieces) >= 2 THEN Some(pieces[2]) ELSE None

RECURSIVE TrimStartMatches(_, _)
TrimStartMatches(s, c) ==
    IF Len(s) > 0 /\ s[1] = c THEN TrimStartMatches(Drop(s, 1), c) ELSE s

RECURSIVE TrimEndMatches(_, _)
TrimEndMatches(s, c) ==
    IF Len(s) > 0 /\ s[Len(s)] = c THEN TrimEndMatches(Take(s, Len(s) - 1), c) ELSE s

\* str::trim_matches(c)
TrimMatches(s, c) == TrimEndMatches(TrimStartMatches(s, c), c)

\* str::trim (the inputs' only whitespace is the space)
Trim(s) == TrimMatches(s, " ")

\* str::replace(from, to): non-overlapping matches, left to right
RECURSIVE Replace(_, _, _)
Replace(s, from, to) ==
    IF Len(s) = 0 THEN s
    ELSE IF StartsWith(s, from) THEN to \o Replace(Drop(s, Len(from)), from, to)
    ELSE <<s[1]>> \o Replace(Drop(s, 1), from, to)

(***************************************************************************)
(* semver::VersionReq::parse, VersionReq::to_string and Version::parse as  *)
(* the code calls them (one comparator, numeric components).               *)
(***************************************************************************)
Digits == <<"0", "1", "2", "3", "4", "5", "6", "7", "8", "9">>

IsDigit(c) == \E i \in 1..10 : Digits[i] = c

DigitVal(c) == (CHOOSE i \in 1..10 : Digits[i] = c) - 1

\* number of leading digits of s
RECURSIVE DigitRun(_)
DigitRun(s) ==
    IF Len(s) > 0 /\ IsDigit(s[1]) THEN 1 + DigitRun(Drop(s, 1)) ELSE 0

RECURSIVE DigitsValue(_)
DigitsValue(s) ==
    IF Len(s) = 0 THEN 0
    ELSE 10 * DigitsValue(Take(s, Len(s) - 1)) + DigitVal(s[Len(s)])

\* numeric_identifier: a non-empty run of digits without a leading zero
NumericIdentifier(s) ==
    LET n == DigitRun(s)
    IN IF n = 0 \/ (n > 1 /\ s[1] = "0")
       THEN [ok |-> FALSE, val |-> 0, rest |-> s]
       ELSE [ok |-> TRUE, val |-> DigitsValue(Take(s, n)), rest |-> Drop(s, n)]

RECURSIVE NatToStr(_)
NatToStr(n) ==
    IF n < 10 THEN <<Digits[n + 1]>> ELSE NatToStr(n \div 10) \o <<Digits[(n % 10) + 1]>>

\* the comparison operator at the head of a comparator; Caret when absent
ParseOp(s) ==
    IF StartsWith(s, <<">", "=">>) THEN [op |-> ">=", rest |-> Drop(s, 2)]
    ELSE IF StartsWith(s, <<"<", "=">>) THEN [op |-> "<=", rest |-> Drop(s, 2)]
    ELSE IF StartsWith(s, <<"=">>) THEN [op |-> "=", rest |-> Drop(s, 1)]
    ELSE IF StartsWith(s, <<">">>) THEN [op |-> ">", rest |-> Drop(s, 1)]
    ELSE IF StartsWith(s, <<"<">>) THEN [op |-> "<", rest |-> Drop(s, 1)]
    ELSE IF StartsWith(s, <<"~">>) THEN [op |-> "~", rest |-> Drop(s, 1)]
    ELSE IF StartsWith(s, <<"^">>) THEN [op |-> "^", rest |-> Drop(s, 1)]
    ELSE [op |-> "^", rest |-> s]

\* one comparator: op, major, optional .minor, optional .patch, then nothing
ParseComparator(s) ==
    LET o == ParseOp(s)
        maj == NumericIdentifier(TrimStartMatches(o.rest, " "))
        hasMin == maj.ok /\ StartsWith(maj.rest, <<".">>)
        min == IF hasMin THEN NumericIdentifier(Drop(maj.rest, 1))
               ELSE [ok |-> TRUE, val |-> 0, rest |-> maj.rest]
        hasPat == hasMin /\ min.ok /\ StartsWith(min.rest, <<".">>)
        pat == IF hasPat THEN NumericIdentifier(Drop(min.rest, 1))
               ELSE [ok |-> TRUE, val |-> 0, rest |-> min.rest]
    IN IF maj.ok /\ min.ok /\ pat.ok /\ TrimStartMatches(pat.rest, " ") = <<>>
       THEN Some([op |-> o.op,
                  nums |-> <<maj.val>> \o (IF hasMin THEN <<min.val>> ELSE <<>>)
                                       \o (IF hasPat THEN <<pat.val>> ELSE <<>>)])
       ELSE None

\* VersionReq::parse(text).ok(): a requirement is its sequence of comparators,
\* the wildcard requirement * being the empty sequence
VersionReqParse(text) ==
    LET t == TrimStartMatches(text, " ")
    IN IF Len(t) > 0 /\ t[1] \in {"*", "x", "X"}
       THEN IF TrimStartMatches(Drop(t, 1), " ") = <<>>
            THEN Some([comparators |-> <<>>])
            ELSE None
       ELSE LET c == ParseComparator(t)
            IN IF IsSome(c) THEN Some([comparators |-> <<c[1]>>]) ELSE None

RECURSIVE JoinDots(_)
JoinDots(nums) ==
    IF Len(nums) = 1 THEN NatToStr(nums[1])
    ELSE JoinDots(Take(nums, Len(nums) - 1)) \o <<".">> \o NatToStr(nums[Len(nums)])

OpChars(op) ==
    IF op = ">=" THEN <<">", "=">>
    ELSE IF op = "<=" THEN <<"<", "=">>
    ELSE <<op>>

\* VersionReq::to_string
VersionReqToString(req) ==
    IF Len(req.comparators) = 0 THEN <<"*">>
    ELSE LET c == req.comparators[1] IN OpChars(c.op) \o JoinDots(c.nums)

\* Version::parse(text).ok(): exactly MAJOR.MINOR.PATCH
VersionParse(text) ==
    LET maj == NumericIdentifier(text)
        min == IF maj.ok /\ StartsWith(maj.rest, <<".">>)
               THEN NumericIdentifier(Drop(maj.rest, 1))
               ELSE [ok |-> FALSE, val |-> 0, rest |-> <<>>]
        pat == IF min.ok /\ StartsWith(min.rest, <<".">>)
               THEN NumericIdentifier(Drop(min.rest, 1))
               ELSE [ok |-> FALSE, val |-> 0, rest |-> <<>>]
    IN IF maj.ok /\ min.ok /\ pat.ok /\ pat.rest = <<>>
       THEN Some(<<maj.val, min.val, pat.val>>)
       ELSE None

\* Ord for Version: lexicographic on (major, minor, patch)
VersionLess(a, b) ==
    \/ a[1] < b[1]
    \/ a[1] = b[1] /\ a[2] < b[2]
    \/ a[1] = b[1] /\ a[2] = b[2] /\ a[3] < b[3]

(***************************************************************************)
(* String literals of the code and of the manifests of the model.          *)
(***************************************************************************)
\* 'numpy'
NUMPY ==
    <<"n", "u", "m", "p", "y">>

\* 'pandas'
PANDAS ==
    <<"p", "a", "n", "d", "a", "s">>

\* 'scikit-learn'
SCIKIT_LEARN ==
    <<"s", "c", "i", "k", "i", "t", "-", "l", "e", "a", "r", "n">>

\* 'tensorflow'
TENSORFLOW ==
    <<"t", "e", "n", "s", "o", "r", "f", "l", "o", "w">>

\* 'torch'
TORCH ==
    <<"t", "o", "r", "c", "h">>

\* 'transformers'
TRANSFORMERS ==
    <<"t", "r", "a", "n", "s", "f", "o", "r", "m", "e", "r", "s">>

\* 'jax'
JAX ==
    <<"j", "a", "x">>

\* 'pandas<1.0.0'
PANDAS_LT_1_0_0 ==
    <<"p", "a", "n", "d", "a", "s", "<", "1", ".", "0", ".", "0">>

\* '<1.19'
LT_1_19 ==
    <<"<", "1", ".", "1", "9">>

\* '# pinned for the training image'
Line_comment ==
    <<"#", " ", "p", "i", "n", "n", "e", "d", " ", "f", "o", "r", " ", "t", "h", "e", " ", "t", "r", "a", "i", "n", "i", "n", "g", " ", "i", "m", "a", "g", "e">>

\* 'numpy<1.19.2'
Line_numpy_lt ==
    <<"n", "u", "m", "p", "y", "<", "1", ".", "1", "9", ".", "2">>

\* 'tensorflow>=2.0'
Line_tensorflow_ge ==
    <<"t", "e", "n", "s", "o", "r", "f", "l", "o", "w", ">", "=", "2", ".", "0">>

\* 'transformers'
Line_transformers ==
    <<"t", "r", "a", "n", "s", "f", "o", "r", "m", "e", "r", "s">>

\* 'torch'
Line_torch ==
    <<"t", "o", "r", "c", "h">>

\* 'numpy>=1.20.0'
Line_numpy_ge ==
    <<"n", "u", "m", "p", "y", ">", "=", "1", ".", "2", "0", ".", "0">>

\* '  pandas==1.5.0'
Line_pandas_eq ==
    <<" ", " ", "p", "a", "n", "d", "a", "s", "=", "=", "1", ".", "5", ".", "0">>

\* 'tensorflow'
Line_tensorflow ==
    <<"t", "e", "n", "s", "o", "r", "f", "l", "o", "w">>

\* 'numpy=1.18.5'
Line_numpy_conda ==
    <<"n", "u", "m", "p", "y", "=", "1", ".", "1", "8", ".", "5">>

\* 'requests ~= 2.28.0'
Line_requests ==
    <<"r", "e", "q", "u", "e", "s", "t", "s", " ", "~", "=", " ", "2", ".", "2", "8", ".", "0">>

\* 'tqdm'
Line_tqdm ==
    <<"t", "q", "d", "m">>

\* '==='
Line_malformed ==
    <<"=", "=", "=">>

\* ' \'scikit-learn\', "numpy<1.19.2", '
Capture_setup ==
    <<" ", "'", "s", "c", "i", "k", "i", "t", "-", "l", "e", "a", "r", "n", "'", ",", " ", "\"", "n", "u", "m", "p", "y", "<", "1", ".", "1", "9", ".", "2", "\"", ",", " ">>

\* '<1.19.2'
Spec_lt ==
    <<"<", "1", ".", "1", "9", ".", "2">>

\* '>=2.0'
Spec_ge ==
    <<">", "=", "2", ".", "0">>

\* '==1.13.0'
Spec_eq ==
    <<"=", "=", "1", ".", "1", "3", ".", "0">>

\* '*'
Spec_star ==
    <<"*">>

\* 'matplotlib'
MATPLOTLIB ==
    <<"m", "a", "t", "p", "l", "o", "t", "l", "i", "b">>

\* 'seaborn'
SEABORN ==
    <<"s", "e", "a", "b", "o", "r", "n">>

\* 'tqdm'
TQDM ==
    <<"t", "q", "d", "m">>

\* 'pillow'
PILLOW ==
    <<"p", "i", "l", "l", "o", "w">>

\* 'tokenizers'
TOKENIZERS ==
    <<"t", "o", "k", "e", "n", "i", "z", "e", "r", "s">>

\* ' versions)'
VERSIONS_SUFFIX ==
    <<" ", "v", "e", "r", "s", "i", "o", "n", "s", ")">>

\* 'deps.dot'
Out_dot ==
    <<"d", "e", "p", "s", ".", "d", "o", "t">>

\* 'deps.png'
Out_png ==
    <<"d", "e", "p", "s", ".", "p", "n", "g">>

\* '.dot'
EXT_DOT ==
    <<".", "d", "o", "t">>

\* '.png'
EXT_PNG ==
    <<".", "p", "n", "g">>

(***************************************************************************)
(* DependencyAnalyzer: the Dependency record, add_dependency and the       *)
(* knowledge base built by DependencyAnalyzer::new.                        *)
(***************************************************************************)
\* the known_conflicts table of DependencyAnalyzer::new
known_conflicts ==
    (TENSORFLOW :> {TORCH, JAX}) @@ (TORCH :> {TENSORFLOW, JAX}) @@ (NUMPY :> {PANDAS_LT_1_0_0})

\* parse_version_spec: pip-style to semver-style, then VersionReq::parse(..).ok()
parse_version_spec(spec) ==
    VersionReqParse(
        Replace(Replace(Replace(Replace(spec, <<">", "=">>, <<">", "=">>),
                                <<"<", "=">>, <<"<", "=">>),
                        <<"=", "=">>, <<"=">>),
                <<"~", "=">>, <<"~">>))

\* the Dependency literal the four line-oriented parsers build from one entry
LineDependency(text, path) ==
    [name |-> Trim(SplitNext(text, Delims)),
     version_spec |-> text,
     version_req |-> parse_version_spec(text),
     resolved_version |-> None,
     source_file |-> path]

\* faulty variant of PushDependency: insert replaces the bucket instead of pushing
PushDependency_Overwrite(deps, dep) ==
    IF dep.name \in DOMAIN deps
    THEN [deps EXCEPT ![dep.name] = <<dep>>]
    ELSE (dep.name :> <<dep>>) @@ deps

\* self.dependencies.entry(name).or_insert_with(Vec::new).push(dep)
PushDependency(deps, dep) ==
    IF dep.name \in DOMAIN deps
    THEN [deps EXCEPT ![dep.name] = Append(@, dep)]
    ELSE (dep.name :> <<dep>>) @@ deps

\* faulty variant of NodeIsNew: the contains_key test is dropped
NodeIsNew_Always(node_map, name) == TRUE

\* !self.node_map.contains_key(&name)
NodeIsNew(node_map, name) == name \notin DOMAIN node_map

\* faulty variant of KnownDependencies: the "scikit-learn" arm is missing
KnownDependencies_NoScikitLearn(name) ==
    IF name = PANDAS THEN <<NUMPY>>
    ELSE IF name = TENSORFLOW THEN <<NUMPY>>
    ELSE IF name = TRANSFORMERS THEN <<TORCH, TENSORFLOW>>
    ELSE <<>>

\* the match of add_dependency: the packages a first-seen package links to
KnownDependencies(name) ==
    IF name = PANDAS THEN <<NUMPY>>
    ELSE IF name = SCIKIT_LEARN THEN <<NUMPY>>
    ELSE IF name = TENSORFLOW THEN <<NUMPY>>
    ELSE IF name = TRANSFORMERS THEN <<TORCH, TENSORFLOW>>
    ELSE <<>>

\* graph.add_node(name) and node_map.insert(name, node_idx); a NodeIndex is
\* the number of nodes added before it
InsertNode(a, name) ==
    [a EXCEPT !.graph.nodes = Append(@, name),
              !.node_map = (name :> Len(a.graph.nodes)) @@ @]

\* if let Some(&idx) = self.node_map.get(target) { graph.add_edge(..) }, for
\* each target of the matched arm in turn
RECURSIVE AttachKnownEdges(_, _, _)
AttachKnownEdges(a, name, targets) ==
    IF Len(targets) = 0 THEN a
    ELSE LET t == Head(targets)
             b == IF t \in DOMAIN a.node_map
                  THEN [a EXCEPT !.graph.edges =
                            Append(@, <<a.node_map[name], a.node_map[t]>>)]
                  ELSE a
         IN AttachKnownEdges(b, name, Tail(targets))

\* faulty variant of add_dependency: the match sits outside the contains_key test, so
\* every call attaches the known edges again
add_dependency_EdgesEveryCall(a, dep) ==
    LET pushed == [a EXCEPT !.dependencies = PushDependency(@, dep)]
    IN IF NodeIsNew(pushed.node_map, dep.name)
       THEN AttachKnownEdges(InsertNode(pushed, dep.name), dep.name,
                             KnownDependencies(dep.name))
       ELSE AttachKnownEdges(pushed, dep.name, KnownDependencies(dep.name))

add_dependency(a, dep) ==
    LET pushed == [a EXCEPT !.dependencies = PushDependency(@, dep)]
    IN IF NodeIsNew(pushed.node_map, dep.name)
       THEN AttachKnownEdges(InsertNode(pushed, dep.name), dep.name,
                             KnownDependencies(dep.name))
       ELSE pushed

\* the add_dependency calls of one parser, in order
RECURSIVE AddAll(_, _)
AddAll(a, deps) ==
    IF Len(deps) = 0 THEN a ELSE AddAll(add_dependency(a, Head(deps)), Tail(deps))

(***************************************************************************)
(* The manifest parsers: the Dependency values each passes to              *)
(* add_dependency, in order, for a file that was read and parsed.          *)
(***************************************************************************)
\* parse_requirements: one dependency per non-empty, non-comment line
RECURSIVE RequirementsDeps(_, _)
RequirementsDeps(lines, path) ==
    IF Len(lines) = 0 THEN <<>>
    ELSE LET line == Trim(Head(lines))
         IN (IF Len(line) = 0 \/ StartsWith(line, <<"#">>)
             THEN <<>>
             ELSE <<LineDependency(line, path)>>)
            \o RequirementsDeps(Tail(lines), path)

\* parse_setup_py: the comma-separated, quote-stripped entries of the capture
RECURSIVE SetupPyReqs(_, _)
SetupPyReqs(pieces, path) ==
    IF Len(pieces) = 0 THEN <<>>
    ELSE LET req == TrimMatches(TrimMatches(Trim(Head(pieces)), "'"), "\"")
         IN (IF Len(req) = 0 THEN <<>> ELSE <<LineDependency(req, path)>>)
            \o SetupPyReqs(Tail(pieces), path)

SetupPyDeps(captures, path) ==
    IF IsSome(captures) THEN SetupPyReqs(Split(captures[1], {","}), path) ELSE <<>>

\* parse_pipfile: the entries of the packages table
RECURSIVE PipfileDeps(_, _)
PipfileDeps(packages, path) ==
    IF Len(packages) = 0 THEN <<>>
    ELSE LET e == Head(packages)
             version_spec == IF e.value.is_str THEN e.value.str ELSE <<"*">>
         IN <<[name |-> e.key,
               version_spec |-> version_spec,
               version_req |-> parse_version_spec(version_spec),
               resolved_version |-> None,
               source_file |-> path]>>
            \o PipfileDeps(Tail(packages), path)

\* parse_pyproject_toml and parse_conda_yml: the text scalars of the array
RECURSIVE ArrayDeps(_, _)
ArrayDeps(values, path) ==
    IF Len(values) = 0 THEN <<>>
    ELSE (IF Head(values).is_str
          THEN <<LineDependency(Head(values).str, path)>>
          ELSE <<>>)
         \o ArrayDeps(Tail(values), path)

OptionSeq(o) == IF IsSome(o) THEN o[1] ELSE <<>>

(***************************************************************************)
(* check_conflicts.  A finding is the record of the values its message is  *)
(* formatted from.  The findings are a bag: the Vec<String> the code       *)
(* returns lists them in HashMap iteration order, which is unspecified.    *)
(***************************************************************************)
Finding(rule, pkg, spec, conflict_pkg, conflict_spec, versions, suggestion) ==
    [rule |-> rule, pkg |-> pkg, spec |-> spec, conflict_pkg |-> conflict_pkg,
     conflict_spec |-> conflict_spec, versions |-> versions, suggestion |-> suggestion]

RECURSIVE SetToSeq(_)
SetToSeq(S) ==
    IF S = {} THEN <<>>
    ELSE LET x == CHOOSE y \in S : TRUE IN <<x>> \o SetToSeq(S \ {x})

RECURSIVE SeqToBag(_)
SeqToBag(s) ==
    IF Len(s) = 0 THEN EmptyBag ELSE SetToBag({Head(s)}) (+) SeqToBag(Tail(s))

\* faulty variant of HasMultipleRequirements: off by one
HasMultipleRequirements_OffByOne(deps) == Len(deps) >= 1

\* deps.len() > 1
HasMultipleRequirements(deps) == Len(deps) > 1

\* the filter_map of the highest-version search: the second piece of the
\* spec, parsed as a strict version
ExtractedVersion(dep) ==
    LET v == SplitNth1(dep.version_spec, Delims)
    IN IF IsSome(v) THEN VersionParse(Trim(v[1])) ELSE None

\* .max() over the extracted versions: None when there is none
RECURSIVE HighestVersion(_)
HighestVersion(deps) ==
    IF Len(deps) = 0 THEN None
    ELSE LET v == ExtractedVersion(Head(deps))
             rest == HighestVersion(Tail(deps))
         IN IF ~IsSome(v) THEN rest
            ELSE IF ~IsSome(rest) THEN v
            ELSE IF VersionLess(v[1], rest[1]) THEN rest ELSE v

\* rule 1, for one entry of self.dependencies
MultipleRequirements(name, deps) ==
    IF HasMultipleRequirements(deps)
    THEN <<Finding("multiple_version_requirements", name, <<>>, <<>>, <<>>,
                   [i \in 1..Len(deps) |-> <<deps[i].version_spec, deps[i].source_file>>],
                   HighestVersion(deps))>>
    ELSE <<>>

\* faulty variant of ConflictPkgName: the version qualifier is not stripped
ConflictPkgName_NoStrip(conflict_pkg) == conflict_pkg

\* conflict_pkg.split('<').next().unwrap_or(conflict_pkg)
ConflictPkgName(conflict_pkg) == SplitNext(conflict_pkg, {"<"})

\* rule 2, for one identifier of one entry of self.known_conflicts
KnownConflict(dependencies, pkg, conflict_pkg) ==
    IF pkg \in DOMAIN dependencies /\ ConflictPkgName(conflict_pkg) \in DOMAIN dependencies
    THEN <<Finding("known_conflict", pkg, dependencies[pkg][1].version_spec,
                   conflict_pkg,
                   dependencies[ConflictPkgName(conflict_pkg)][1].version_spec,
                   <<>>, None)>>
    ELSE <<>>

\* rule 3, for one entry of self.dependencies: only the first record, and only
\* when its version_req is Some
VersionCompatibility(dependencies, name, deps) ==
    IF Len(deps) = 0 \/ ~IsSome(deps[1].version_req) THEN <<>>
    ELSE IF name = NUMPY
    THEN IF Contains(VersionReqToString(deps[1].version_req[1]), LT_1_19)
         THEN <<Finding("numpy_too_old", name, deps[1].version_spec, <<>>, <<>>, <<>>, None)>>
         ELSE <<>>
    ELSE IF name = TENSORFLOW
    THEN IF /\ NUMPY \in DOMAIN dependencies
            /\ Len(dependencies[NUMPY]) > 0
            /\ Contains(dependencies[NUMPY][1].version_spec, LT_1_19)
         THEN <<Finding("tensorflow_requires_numpy", name, deps[1].version_spec,
                        <<>>, <<>>, <<>>, None)>>
         ELSE <<>>
    ELSE IF name = TRANSFORMERS
    THEN IF TENSORFLOW \in DOMAIN dependencies /\ TORCH \in DOMAIN dependencies
         THEN <<Finding("transformers_both_backends", name, <<>>, <<>>, <<>>, <<>>, None)>>
         ELSE <<>>
    ELSE <<>>

RECURSIVE Rule1(_, _)
Rule1(dependencies, names) ==
    IF Len(names) = 0 THEN <<>>
    ELSE MultipleRequirements(Head(names), dependencies[Head(names)])
         \o Rule1(dependencies, Tail(names))

RECURSIVE Rule2(_, _)
Rule2(dependencies, pairs) ==
    IF Len(pairs) = 0 THEN <<>>
    ELSE KnownConflict(dependencies, Head(pairs)[1], Head(pairs)[2])
         \o Rule2(dependencies, Tail(pairs))

RECURSIVE Rule3(_, _)
Rule3(dependencies, names) ==
    IF Len(names) = 0 THEN <<>>
    ELSE VersionCompatibility(dependencies, Head(names), dependencies[Head(names)])
         \o Rule3(dependencies, Tail(names))

\* the (pkg, conflict_pkg) pairs the two nested loops of rule 2 visit
KnownConflictPairs ==
    {pair \in (DOMAIN known_conflicts) \X (UNION {known_conflicts[p] : p \in DOMAIN known_conflicts}) :
        pair[2] \in known_conflicts[pair[1]]}

check_conflicts(dependencies) ==
    SeqToBag(Rule1(dependencies, SetToSeq(DOMAIN dependencies))
             \o Rule2(dependencies, SetToSeq(KnownConflictPairs))
             \o Rule3(dependencies, SetToSeq(DOMAIN dependencies)))

(***************************************************************************)
(* The project tree: the directory entries a walk can yield.  A file is    *)
(* its path, its base name, whether fs::read_to_string succeeds, whether   *)
(* the document reader accepts it, and what the reader or the regex        *)
(* returns for it.                                                         *)
(***************************************************************************)
StrValue(s) == [is_str |-> TRUE, str |-> s]

\* a table, an integer, a mapping: any value that is not a text scalar
OtherValue == [is_str |-> FALSE, str |-> <<>>]

File(path, file_name, readable, syntax_ok, lines, captures, packages, deps) ==
    [path |-> path, file_name |-> file_name, readable |-> readable,
     syntax_ok |-> syntax_ok, lines |-> lines, captures |-> captures,
     packages |-> packages, dependencies |-> deps]

FS ==
    << File("app/requirements.txt", "requirements.txt", TRUE, TRUE,
            <<Line_comment, <<>>, Line_numpy_lt, Line_tensorflow_ge>>, None, None, None),
       File("svc/requirements.txt", "requirements.txt", TRUE, TRUE,
            <<Line_transformers, Line_torch>>, None, None, None),
       File("lib/requirements.txt", "requirements.txt", TRUE, TRUE,
            <<Line_numpy_ge, Line_pandas_eq, Line_requests>>, None, None, None),
       File("old/requirements.txt", "requirements.txt", FALSE, TRUE,
            <<>>, None, None, None),
       File("setup.py", "setup.py", TRUE, TRUE,
            <<>>, Some(Capture_setup), None, None),
       File("tools/setup.py", "setup.py", TRUE, TRUE,
            <<>>, None, None, None),
       File("Pipfile", "Pipfile", TRUE, TRUE, <<>>, None,
            Some(<<[key |-> NUMPY, value |-> StrValue(Spec_lt)],
                   [key |-> TENSORFLOW, value |-> StrValue(Spec_ge)]>>), None),
       File("api/Pipfile", "Pipfile", TRUE, TRUE, <<>>, None,
            Some(<<[key |-> JAX, value |-> OtherValue],
                   [key |-> TORCH, value |-> StrValue(Spec_eq)],
                   [key |-> TRANSFORMERS, value |-> StrValue(Spec_star)]>>), None),
       File("bad/Pipfile", "Pipfile", TRUE, FALSE, <<>>, None, None, None),
       File("pyproject.toml", "pyproject.toml", TRUE, TRUE, <<>>, None, None,
            Some(<<StrValue(Line_pandas_eq), OtherValue, StrValue(Line_malformed),
                   StrValue(Line_tensorflow)>>)),
       File("bad/pyproject.toml", "pyproject.toml", TRUE, FALSE, <<>>, None, None, None),
       File("environment.yml", "environment.yml", TRUE, TRUE, <<>>, None, None,
            Some(<<StrValue(Line_numpy_conda), OtherValue, StrValue(Line_torch),
                   StrValue(Line_tqdm)>>)),
       File("bad/environment.yml", "environment.yml", TRUE, FALSE, <<>>, None, None, None),
       File("README.md", "README.md", TRUE, TRUE, <<>>, None, None, None) >>

Ok(deps) == [ok |-> TRUE, deps |-> deps]

Err == [ok |-> FALSE, deps |-> <<>>]

\* each parser's result for a file: Err, or Ok with its add_dependency calls
parse_requirements_result(f) ==
    IF ~f.readable THEN Err ELSE Ok(RequirementsDeps(f.lines, f.path))

parse_setup_py_result(f) ==
    IF ~f.readable THEN Err ELSE Ok(SetupPyDeps(f.captures, f.path))

parse_pipfile_result(f) ==
    IF ~f.readable \/ ~f.syntax_ok THEN Err
    ELSE Ok(PipfileDeps(OptionSeq(f.packages), f.path))

parse_pyproject_toml_result(f) ==
    IF ~f.readable \/ ~f.syntax_ok THEN Err
    ELSE Ok(ArrayDeps(OptionSeq(f.dependencies), f.path))

\* if let Ok(yaml) = serde_yaml::from_str(..): a YAML syntax error is not
\* propagated, the file then contributes nothing
parse_conda_yml_result(f) ==
    IF ~f.readable THEN Err
    ELSE IF ~f.syntax_ok THEN Ok(<<>>)
    ELSE Ok(ArrayDeps(OptionSeq(f.dependencies), f.path))

\* the match on the base file name in scan_project
ManifestNames ==
    {"requirements.txt", "setup.py", "Pipfile", "pyproject.toml", "environment.yml"}

ParseResult(f) ==
    IF f.file_name = "requirements.txt" THEN parse_requirements_result(f)
    ELSE IF f.file_name = "setup.py" THEN parse_setup_py_result(f)
    ELSE IF f.file_name = "Pipfile" THEN parse_pipfile_result(f)
    ELSE IF f.file_name = "pyproject.toml" THEN parse_pyproject_toml_result(f)
    ELSE IF f.file_name = "environment.yml" THEN parse_conda_yml_result(f)
    ELSE Ok(<<>>)

(***************************************************************************)
(* generate_graph.  The diagram is the sequence of its clusters, each the  *)
(* sequence of its node statements, and the sequence of its edge           *)
(* statements; a node statement is its id, its colour and its label.  The  *)
(* text form is a bag of lines: the code writes them in HashMap order.     *)
(***************************************************************************)
ML_PACKAGES == {TENSORFLOW, TORCH, JAX, TRANSFORMERS, SCIKIT_LEARN}

DATA_PACKAGES == {NUMPY, PANDAS, MATPLOTLIB, SEABORN}

UTIL_PACKAGES == {TQDM, PILLOW, TOKENIZERS}

\* the match that sorts a node into ml_packages, data_packages, util_packages
\* or other_packages
Category(name) ==
    IF name \in ML_PACKAGES THEN "cluster_ml"
    ELSE IF name \in DATA_PACKAGES THEN "cluster_data"
    ELSE IF name \in UTIL_PACKAGES THEN "cluster_util"
    ELSE "cluster_other"

\* faulty variant of NodeColor: the known-conflict test comes first
NodeColor_KnownFirst(name, deps) ==
    IF name \in DOMAIN known_conflicts THEN "#FF6600"
    ELSE IF Len(deps) > 1 THEN "#CC0000"
    ELSE "#2D3436"

\* the colour chosen by node_attrs
NodeColor(name, deps) ==
    IF Len(deps) > 1 THEN "#CC0000"
    ELSE IF name \in DOMAIN known_conflicts THEN "#FF6600"
    ELSE "#2D3436"

\* the label chosen by node_attrs, with its quotes escaped
NodeLabel(name, deps) ==
    Replace(IF Len(deps) > 1
            THEN name \o <<"\n", "(">> \o NatToStr(Len(deps)) \o VERSIONS_SUFFIX
            ELSE name,
            <<"\"">>, <<"\\", "\"">>)

\* the node statements of one cluster: the nodes of the category, by index
RECURSIVE ClusterNodes(_, _, _)
ClusterNodes(a, cluster, idx) ==
    IF idx >= Len(a.graph.nodes) THEN <<>>
    ELSE LET name == a.graph.nodes[idx + 1]
         IN (IF Category(name) = cluster
             THEN <<[id |-> idx,
                     color |-> NodeColor(name, a.dependencies[name]),
                     label |-> NodeLabel(name, a.dependencies[name])]>>
             ELSE <<>>)
            \o ClusterNodes(a, cluster, idx + 1)

\* the subgraphs array
Subgraphs ==
    << <<"cluster_ml", "Machine Learning">>, <<"cluster_data", "Data Processing">>,
       <<"cluster_util", "Utilities">>, <<"cluster_other", "Other">> >>

\* one subgraph statement per non-empty category
RECURSIVE Clusters(_, _)
Clusters(a, subgraphs) ==
    IF Len(subgraphs) = 0 THEN <<>>
    ELSE LET nodes == ClusterNodes(a, Head(subgraphs)[1], 0)
         IN (IF Len(nodes) > 0
             THEN <<[name |-> Head(subgraphs)[1], label |-> Head(subgraphs)[2],
                     nodes |-> nodes]>>
             ELSE <<>>)
            \o Clusters(a, Tail(subgraphs))

\* the edge statements: dashed red when the endpoints are a known conflict
EdgeStatements(a) ==
    [k \in 1..Len(a.graph.edges) |->
        LET from_name == a.graph.nodes[a.graph.edges[k][1] + 1]
            to_name == a.graph.nodes[a.graph.edges[k][2] + 1]
            is_conflict == /\ from_name \in DOMAIN known_conflicts
                           /\ to_name \in known_conflicts[from_name]
        IN [from |-> a.graph.edges[k][1], to |-> a.graph.edges[k][2],
            style |-> IF is_conflict THEN "dashed" ELSE "solid"]]

\* the lines of the text form
RECURSIVE TextLines(_, _)
TextLines(dependencies, names) ==
    IF Len(names) = 0 THEN <<>>
    ELSE [i \in 1..Len(dependencies[Head(names)]) |->
             <<Head(names), dependencies[Head(names)][i].version_spec,
               dependencies[Head(names)][i].source_file>>]
         \o TextLines(dependencies, Tail(names))

GraphOutput(kind, clusters, edges, lines) ==
    [kind |-> kind, clusters |-> clusters, edges |-> edges, lines |-> lines]

NoOutput == GraphOutput("none", <<>>, <<>>, EmptyBag)

\* faulty variant of generate_graph: the catch-all arm renders the text form
generate_graph_NoCatchAll(a, format) ==
    IF format \in {"dot", "png"}
    THEN [ok |-> TRUE,
          output |-> GraphOutput("dot", Clusters(a, Subgraphs), EdgeStatements(a), EmptyBag)]
    ELSE [ok |-> TRUE,
          output |-> GraphOutput("text", <<>>, <<>>,
                                 SeqToBag(TextLines(a.dependencies,
                                                    SetToSeq(DOMAIN a.dependencies))))]

\* generate_graph: Ok(String) for "dot", "png" and "text", else
\* Err("Unsupported output format")
generate_graph(a, format) ==
    IF format \in {"dot", "png"}
    THEN [ok |-> TRUE,
          output |-> GraphOutput("dot", Clusters(a, Subgraphs), EdgeStatements(a), EmptyBag)]
    ELSE IF format = "text"
    THEN [ok |-> TRUE,
          output |-> GraphOutput("text", <<>>, <<>>,
                                 SeqToBag(TextLines(a.dependencies,
                                                    SetToSeq(DOMAIN a.dependencies))))]
    ELSE [ok |-> FALSE, output |-> NoOutput]

(***************************************************************************)
(* The state machine: main.  The command-line arguments are inputs fixed   *)
(* before main runs; args holds those main has read so far, each drawn     *)
(* when main first reads it.                                               *)
(***************************************************************************)
VARIABLES
    dependencies,   \* DependencyAnalyzer.dependencies: name -> Vec<Dependency>
    graph,          \* DependencyAnalyzer.graph: node weights and edges
    node_map,       \* DependencyAnalyzer.node_map: name -> NodeIndex
    visited,        \* the entries of FS the walk has yielded so far, in order
    calls,          \* history: the arguments of the add_dependency calls so far
    conflicts,      \* the findings check_conflicts returned
    args,           \* Args: the fields read so far (format, output, security)
    graph_output,   \* what generate_graph returned
    written,        \* history: the paths fs::write has written graph_output to
    raster,         \* history: the attempts to produce the PNG, with their outcome
    stdout,         \* history: what main printed after generate_graph
    error,          \* the error main returned, when it did
    pc              \* where main is

vars ==
    <<dependencies, graph, node_map, visited, calls, conflicts, args, graph_output,
      written, raster, stdout, error, pc>>

\* the analyzer, which nothing changes once the scan is over
scanned == <<dependencies, graph, node_map, visited, calls>>

\* what the output phase of main produces
produced == <<args, graph_output, written, raster, stdout>>

analyzer == [dependencies |-> dependencies, graph |-> graph, node_map |-> node_map]

\* DependencyAnalyzer::new
NewAnalyzer ==
    [dependencies |-> <<>>, graph |-> [nodes |-> <<>>, edges |-> <<>>], node_map |-> <<>>]

Range(s) == {s[i] : i \in 1..Len(s)}

\* the values of --format the model draws from, the default "text" included
Formats == {"text", "dot", "png", "svg"}

\* the values of --output the model draws from
Outputs == {None, Some(Out_dot), Some(Out_png)}

EndsWith(s, suffix) ==
    Len(suffix) <= Len(s) /\ SubSeq(s, Len(s) - Len(suffix) + 1, Len(s)) = suffix

Init ==
    /\ dependencies = NewAnalyzer.dependencies
    /\ graph = NewAnalyzer.graph
    /\ node_map = NewAnalyzer.node_map
    /\ visited = <<>>
    /\ calls = <<>>
    /\ conflicts = EmptyBag
    /\ args = <<>>
    /\ graph_output = NoOutput
    /\ written = <<>>
    /\ raster = <<>>
    /\ stdout = <<>>
    /\ error = None
    /\ pc = "scan_project"

\* the walk yields entry i of the tree next
Yields(i) ==
    /\ pc = "scan_project"
    /\ Len(visited) < MaxFiles
    /\ i \notin Range(visited)
    /\ visited' = Append(visited, i)

\* one arm of the match: the parser's add_dependency calls, or its error
\* propagated by ? out of scan_project and out of main
Arm(result) ==
    IF result.ok
    THEN LET a == AddAll(analyzer, result.deps)
         IN /\ dependencies' = a.dependencies
            /\ graph' = a.graph
            /\ node_map' = a.node_map
            /\ calls' = calls \o result.deps
            /\ UNCHANGED <<conflicts, produced, error, pc>>
    ELSE /\ pc' = "exit_err"
         /\ error' = Some("Failed to scan project")
         /\ UNCHANGED <<dependencies, graph, node_map, calls, conflicts, produced>>

parse_requirements(i) ==
    /\ Yields(i)
    /\ FS[i].file_name = "requirements.txt"
    /\ Arm(parse_requirements_result(FS[i]))

parse_setup_py(i) ==
    /\ Yields(i)
    /\ FS[i].file_name = "setup.py"
    /\ Arm(parse_setup_py_result(FS[i]))

parse_pipfile(i) ==
    /\ Yields(i)
    /\ FS[i].file_name = "Pipfile"
    /\ Arm(parse_pipfile_result(FS[i]))

parse_pyproject_toml(i) ==
    /\ Yields(i)
    /\ FS[i].file_name = "pyproject.toml"
    /\ Arm(parse_pyproject_toml_result(FS[i]))

parse_conda_yml(i) ==
    /\ Yields(i)
    /\ FS[i].file_name = "environment.yml"
    /\ Arm(parse_conda_yml_result(FS[i]))

\* _ => continue
SkipEntry(i) ==
    /\ Yields(i)
    /\ FS[i].file_name \notin ManifestNames
    /\ UNCHANGED <<dependencies, graph, node_map, calls, conflicts, produced, error, pc>>

\* the walk is exhausted: scan_project returns Ok(())
ScanProjectOk ==
    /\ pc = "scan_project"
    /\ pc' = "check_conflicts"
    /\ UNCHANGED <<scanned, conflicts, produced, error>>

\* let conflicts = analyzer.check_conflicts()
MainCheckConflicts ==
    /\ pc = "check_conflicts"
    /\ conflicts' = check_conflicts(dependencies)
    /\ pc' = "generate_graph"
    /\ UNCHANGED <<scanned, produced, error>>

\* analyzer.generate_graph(&args.format).context("Failed to generate graph")?
MainGenerateGraph ==
    /\ pc = "generate_graph"
    /\ \E format \in Formats :
           LET result == generate_graph(analyzer, format)
           IN /\ args' = [format |-> format]
              /\ IF result.ok
                 THEN /\ graph_output' = result.output
                      /\ pc' = "output"
                      /\ UNCHANGED error
                 ELSE /\ pc' = "exit_err"
                      /\ error' = Some("Unsupported output format")
                      /\ UNCHANGED graph_output
    /\ UNCHANGED <<scanned, conflicts, written, raster, stdout>>

\* the DOT file of an output path: the path itself when it ends in .dot, else
\* the path with every ".png" replaced by ".dot"
DotFile(output_file) ==
    IF EndsWith(output_file, EXT_DOT) THEN output_file
    ELSE Replace(output_file, EXT_PNG, EXT_DOT)

PngFile(output_file) ==
    IF EndsWith(output_file, EXT_PNG) THEN output_file
    ELSE Replace(output_file, EXT_DOT, EXT_PNG)

\* if args.format == "png" || output_file.ends_with(".png")
WantsPng(format, output_file) == format = "png" \/ EndsWith(output_file, EXT_PNG)

\* an output file and format "dot" or "png": fs::write of the DOT file, whose
\* error is propagated by ?
MainWriteDot ==
    /\ pc = "output"
    /\ args.format \in {"dot", "png"}
    /\ \E output \in Outputs \ {None} : \E write_ok \in BOOLEAN :
           /\ args' = [format |-> args.format, output |-> output]
           /\ IF write_ok
              THEN /\ written' = Append(written, DotFile(output[1]))
                   /\ stdout' = Append(stdout, "Graph written to")
                   /\ pc' = IF WantsPng(args.format, output[1])
                            THEN "rasterize" ELSE "security"
                   /\ UNCHANGED error
              ELSE /\ pc' = "exit_err"
                   /\ error' = Some("Failed to write graph to")
                   /\ UNCHANGED <<written, stdout>>
    /\ UNCHANGED <<scanned, conflicts, graph_output, raster>>

\* an output file and format "text": fs::write of the output file
MainWriteText ==
    /\ pc = "output"
    /\ args.format = "text"
    /\ \E output \in Outputs \ {None} : \E write_ok \in BOOLEAN :
           /\ args' = [format |-> args.format, output |-> output]
           /\ IF write_ok
              THEN /\ written' = Append(written, output[1])
                   /\ stdout' = Append(stdout, "Graph written to")
                   /\ pc' = "security"
                   /\ UNCHANGED error
              ELSE /\ pc' = "exit_err"
                   /\ error' = Some("Failed to write graph to")
                   /\ UNCHANGED <<written, stdout>>
    /\ UNCHANGED <<scanned, conflicts, graph_output, raster>>

\* no output file: the text form is printed, the diagram is not
MainNoOutputFile ==
    /\ pc = "output"
    /\ args' = [format |-> args.format, output |-> None]
    /\ stdout' = Append(stdout, IF args.format = "text"
                                THEN "Dependency Graph:"
                                ELSE "Please specify an output file")
    /\ pc' = "security"
    /\ UNCHANGED <<scanned, conflicts, graph_output, written, raster, error>>

\* which::which("dot") fails
MainDotNotFound ==
    /\ pc = "rasterize"
    /\ raster' = Append(raster, [dot_file |-> DotFile(args.output[1]),
                                 png_file |-> PngFile(args.output[1]),
                                 outcome |-> "not_found"])
    /\ stdout' = stdout \o <<"Attempting to generate PNG...",
                             "Graphviz 'dot' command not found">>
    /\ pc' = "security"
    /\ UNCHANGED <<scanned, conflicts, args, graph_output, written, error>>

\* the message printed for each result of Command::new("dot")..output()
DotMessage(outcome) ==
    IF outcome = "success" THEN "PNG graph generated"
    ELSE IF outcome = "exit_failure" THEN "Failed to generate PNG. Error from 'dot':"
    ELSE "Failed to execute 'dot' command"

\* faulty variant of MainRunDot: the result of output() is propagated by ?
MainRunDot_Propagates ==
    /\ pc = "rasterize"
    /\ \E outcome \in {"success", "exit_failure", "exec_error"} :
           /\ raster' = Append(raster, [dot_file |-> DotFile(args.output[1]),
                                        png_file |-> PngFile(args.output[1]),
                                        outcome |-> outcome])
           /\ IF outcome = "exec_error"
              THEN /\ pc' = "exit_err"
                   /\ error' = Some("Failed to execute 'dot' command")
                   /\ stdout' = Append(stdout, "Attempting to generate PNG...")
              ELSE /\ pc' = "security"
                   /\ stdout' = stdout \o <<"Attempting to generate PNG...",
                                            DotMessage(outcome)>>
                   /\ UNCHANGED error
    /\ UNCHANGED <<scanned, conflicts, args, graph_output, written>>

\* dot -Tpng <dot_file> -o <png_file> runs once: it succeeds, exits
\* unsuccessfully, or cannot be executed
MainRunDot ==
    /\ pc = "rasterize"
    /\ \E outcome \in {"success", "exit_failure", "exec_error"} :
           /\ raster' = Append(raster, [dot_file |-> DotFile(args.output[1]),
                                        png_file |-> PngFile(args.output[1]),
                                        outcome |-> outcome])
           /\ stdout' = stdout \o <<"Attempting to generate PNG...", DotMessage(outcome)>>
    /\ pc' = "security"
    /\ UNCHANGED <<scanned, conflicts, args, graph_output, written, error>>

\* if args.security { .. }; Ok(())
MainSecurity ==
    /\ pc = "security"
    /\ \E security \in BOOLEAN :
           /\ args' = [format |-> args.format, output |-> args.output,
                       security |-> security]
           /\ stdout' = IF security
                        THEN stdout \o <<"Security Check:",
                                         "Security checking is not implemented yet">>
                        ELSE stdout
    /\ pc' = "exit_ok"
    /\ UNCHANGED <<scanned, conflicts, graph_output, written, raster, error>>

Next ==
    \/ \E i \in 1..Len(FS) : parse_requirements(i)
    \/ \E i \in 1..Len(FS) : parse_setup_py(i)
    \/ \E i \in 1..Len(FS) : parse_pipfile(i)
    \/ \E i \in 1..Len(FS) : parse_pyproject_toml(i)
    \/ \E i \in 1..Len(FS) : parse_conda_yml(i)
    \/ \E i \in 1..Len(FS) : SkipEntry(i)
    \/ ScanProjectOk
    \/ MainCheckConflicts
    \/ MainGenerateGraph
    \/ MainWriteDot
    \/ MainWriteText
    \/ MainNoOutputFile
    \/ MainDotNotFound
    \/ MainRunDot
    \/ MainSecurity

Spec == Init /\ [][Next]_vars

\* main is one sequential task: once the output phase is over, the steps
\* that remain are taken
FairSpec == /\ Spec
            /\ WF_vars(MainDotNotFound \/ MainRunDot)
            /\ WF_vars(MainSecurity)

(***************************************************************************)
(* Properties.                                                             *)
(***************************************************************************)
\* check_conflicts has returned
Checked == pc \notin {"scan_project", "check_conflicts"} /\ error # Some("Failed to scan project")

Registered(name) == name \in DOMAIN dependencies

RECURSIVE SumCopies(_, _)
SumCopies(B, S) ==
    IF S = {} THEN 0
    ELSE LET f == CHOOSE g \in S : TRUE IN CopiesIn(f, B) + SumCopies(B, S \ {f})

\* how many findings of the rule the bag holds for the package
FindingCount(B, rule, pkg) ==
    SumCopies(B, {f \in BagToSet(B) : f.rule = rule /\ f.pkg = pkg})

RuleCount(B, rule) == SumCopies(B, {f \in BagToSet(B) : f.rule = rule})

\* C1: check_conflicts emits exactly one "Multiple version requirements"
\* finding for every package with at least two records, none for a package
\* with a single record, and none for any other name.
C1_MultipleRequirementsIffTwoRecords ==
    Checked =>
        /\ \A name \in DOMAIN dependencies :
               FindingCount(conflicts, "multiple_version_requirements", name)
                   = IF Len(dependencies[name]) >= 2 THEN 1 ELSE 0
        /\ \A f \in BagToSet(conflicts) :
               f.rule = "multiple_version_requirements" => Registered(f.pkg)

C1_Witness ==
    /\ Checked
    /\ \E name \in DOMAIN dependencies : Len(dependencies[name]) >= 2
    /\ \E name \in DOMAIN dependencies : Len(dependencies[name]) = 1

\* the first record of the package declares the constraint: the spec is the
\* constraint itself (Pipfile) or the name followed by it (the other formats)
FirstDeclares(name, constraint) ==
    /\ Registered(name)
    /\ dependencies[name][1].version_spec \in {constraint, name \o constraint}

\* C2: with numpy<1.19.2 and tensorflow>=2.0 declared, each the first record
\* of its package, in whatever manifest format, check_conflicts emits both the
\* "numpy might be too old" and the "tensorflow requires numpy>=1.19.2" finding.
C2_NumpyTensorflowBothFindings ==
    (Checked /\ FirstDeclares(NUMPY, Spec_lt) /\ FirstDeclares(TENSORFLOW, Spec_ge)) =>
        /\ FindingCount(conflicts, "numpy_too_old", NUMPY) >= 1
        /\ FindingCount(conflicts, "tensorflow_requires_numpy", TENSORFLOW) >= 1

\* C3: check_conflicts emits the "transformers is being used with both
\* tensorflow and torch" warning exactly when transformers, tensorflow and
\* torch are all declared.
C3_TransformersWarningIffBothBackends ==
    Checked =>
        (RuleCount(conflicts, "transformers_both_backends") >= 1
            <=> (Registered(TRANSFORMERS) /\ Registered(TENSORFLOW) /\ Registered(TORCH)))

\* the five curated known-dependency pairs, source -> target
CuratedPairs ==
    {<<PANDAS, NUMPY>>, <<SCIKIT_LEARN, NUMPY>>, <<TENSORFLOW, NUMPY>>,
     <<TRANSFORMERS, TORCH>>, <<TRANSFORMERS, TENSORFLOW>>}

\* the position in the history of the first add_dependency call for the name
FirstCall(name) ==
    CHOOSE i \in 1..Len(calls) :
        calls[i].name = name /\ \A j \in 1..(i - 1) : calls[j].name # name

EdgeNames(e) == <<graph.nodes[e[1] + 1], graph.nodes[e[2] + 1]>>

HasEdge(s, t) == \E k \in 1..Len(graph.edges) : EdgeNames(graph.edges[k]) = <<s, t>>

\* C4: for each curated pair both of whose packages appear, the graph has the
\* edge source -> target if and only if the target was first added before the
\* source was first added; holding in every state, an edge skipped because the
\* target was not yet seen is never added by a later call.
C4_EdgeIffTargetSeenFirst ==
    \A p \in CuratedPairs :
        (Registered(p[1]) /\ Registered(p[2])) =>
            (HasEdge(p[1], p[2]) <=> FirstCall(p[2]) < FirstCall(p[1]))

C4_Witness ==
    /\ \E p \in CuratedPairs : Registered(p[1]) /\ Registered(p[2]) /\ HasEdge(p[1], p[2])
    /\ \E p \in CuratedPairs :
           /\ Registered(p[1]) /\ Registered(p[2]) /\ ~HasEdge(p[1], p[2])
           /\ FirstCall(p[2]) < Len(calls)

\* the bare package name of a knowledge-base identifier
BareName(identifier) == IF identifier = PANDAS_LT_1_0_0 THEN PANDAS ELSE identifier

KnownFindings(pkg, identifier) ==
    {f \in BagToSet(conflicts) :
        f.rule = "known_conflict" /\ f.pkg = pkg /\ f.conflict_pkg = identifier}

\* C5: check_conflicts emits exactly one "Known conflict" finding for every
\* knowledge-base key P in the registry and identifier I of P whose bare name is
\* in the registry, whatever versions are declared, quoting the first record's
\* spec of each side; it emits no other known-conflict finding.
C5_KnownConflictExactlyOnce ==
    Checked =>
        /\ \A pkg \in DOMAIN known_conflicts : \A identifier \in known_conflicts[pkg] :
               IF Registered(pkg) /\ Registered(BareName(identifier))
               THEN /\ SumCopies(conflicts, KnownFindings(pkg, identifier)) = 1
                    /\ \A f \in KnownFindings(pkg, identifier) :
                           /\ f.spec = dependencies[pkg][1].version_spec
                           /\ f.conflict_spec
                                  = dependencies[BareName(identifier)][1].version_spec
               ELSE KnownFindings(pkg, identifier) = {}
        /\ \A f \in BagToSet(conflicts) :
               f.rule = "known_conflict" =>
                   f.pkg \in DOMAIN known_conflicts /\ f.conflict_pkg \in known_conflicts[f.pkg]

C5_Witness ==
    /\ Checked
    /\ KnownFindings(NUMPY, PANDAS_LT_1_0_0) # {}
    /\ Contains(dependencies[PANDAS][1].version_spec, <<"=", "=", "1", ".", "5">>)
    /\ Registered(TENSORFLOW) /\ ~Registered(TORCH) /\ ~Registered(JAX)

\* a complete run of the pipeline over the manifests in the given walk order
RECURSIVE Replay(_, _)
Replay(a, order) ==
    IF Len(order) = 0 THEN a
    ELSE Replay(AddAll(a, ParseResult(FS[Head(order)]).deps), Tail(order))

WalkOrders(files) ==
    {o \in [1..Cardinality(files) -> files] : \A i, j \in DOMAIN o : i # j => o[i] # o[j]}

\* C6: two runs of the pipeline over the same manifests, the walk visiting them
\* in any two orders, end with the same set of records for every package and
\* the same multiset of findings.
C6_WalkOrderIndependent ==
    Checked =>
        \A order \in WalkOrders(Range(visited)) :
            LET other == Replay(NewAnalyzer, order).dependencies
            IN /\ DOMAIN other = DOMAIN dependencies
               /\ \A name \in DOMAIN dependencies :
                      Range(other[name]) = Range(dependencies[name])
               /\ check_conflicts(other) = conflicts

RECURSIVE TotalRecords(_, _)
TotalRecords(deps, names) ==
    IF names = {} THEN 0
    ELSE LET n == CHOOSE m \in names : TRUE
         IN Len(deps[n]) + TotalRecords(deps, names \ {n})

CallsFor(name) ==
    LET IsFor(d) == d.name = name IN SelectSeq(calls, IsFor)

\* C7: after N add_dependency calls the registry holds exactly N records, every
\* bucket holding exactly the calls made for its key, unchanged (raw spec kept,
\* constraint absent when it did not parse) and in call order.
C7_RegistryHoldsEveryCall ==
    /\ TotalRecords(dependencies, DOMAIN dependencies) = Len(calls)
    /\ \A i \in 1..Len(calls) : Registered(calls[i].name)
    /\ \A name \in DOMAIN dependencies :
           /\ dependencies[name] = CallsFor(name)
           /\ Len(dependencies[name]) >= 1
           /\ \A i \in 1..Len(dependencies[name]) : dependencies[name][i].name = name

C7_Witness ==
    /\ Len(calls) >= 4
    /\ \E name \in DOMAIN dependencies :
           /\ Len(dependencies[name]) >= 2
           /\ ~IsSome(dependencies[name][1].version_req)
           /\ IsSome(dependencies[name][2].version_req)

\* the distinct names of the calls, in order of first occurrence
RECURSIVE FirstSightings(_, _)
FirstSightings(cs, seen) ==
    IF Len(cs) = 0 THEN <<>>
    ELSE IF Head(cs).name \in seen THEN FirstSightings(Tail(cs), seen)
    ELSE <<Head(cs).name>> \o FirstSightings(Tail(cs), seen \cup {Head(cs).name})

\* C8: the graph has exactly one node per distinct package name of the
\* registry: node names, node_map keys and registry keys are the same set, no
\* two nodes carry the same name, node_map maps a name to its node, and the
\* nodes are those the first call for each name created, in that order.
C8_OneNodePerPackage ==
    /\ Range(graph.nodes) = DOMAIN node_map
    /\ DOMAIN node_map = DOMAIN dependencies
    /\ \A i, j \in 1..Len(graph.nodes) : i # j => graph.nodes[i] # graph.nodes[j]
    /\ \A name \in DOMAIN node_map : graph.nodes[node_map[name] + 1] = name
    /\ graph.nodes = FirstSightings(calls, {})

C8_Witness ==
    /\ Len(graph.nodes) >= 3
    /\ Len(calls) > Len(graph.nodes)

EdgeInvariant ==
    /\ \A k \in 1..Len(graph.edges) :
           LET e == graph.edges[k]
           IN /\ e[1] \in 0..(Len(graph.nodes) - 1)
              /\ e[2] \in 0..(Len(graph.nodes) - 1)
              /\ Registered(EdgeNames(e)[1])
              /\ Registered(EdgeNames(e)[2])
              /\ EdgeNames(e) \in CuratedPairs
    /\ \A k, l \in 1..Len(graph.edges) : k # l => graph.edges[k] # graph.edges[l]

\* C9: every edge A -> B of the graph joins two registry keys, is one of the
\* five curated pairs and occurs at most once; a step never removes an edge.
C9_EdgesCuratedAndKept ==
    /\ []EdgeInvariant
    /\ [][/\ Len(graph'.edges) >= Len(graph.edges)
          /\ SubSeq(graph'.edges, 1, Len(graph.edges)) = graph.edges]_vars

C9_Witness ==
    /\ Len(graph.edges) >= 2
    /\ \E k \in 1..Len(graph.edges) :
           Len(dependencies[EdgeNames(graph.edges[k])[1]]) >= 2

\* the file cannot be read, or is not a valid document of its format
BadManifest(f) ==
    /\ f.file_name \in ManifestNames
    /\ \/ ~f.readable
       \/ f.file_name \in {"Pipfile", "pyproject.toml", "environment.yml"} /\ ~f.syntax_ok

\* C10: scan_project returns an error exactly when a visited manifest cannot
\* be read or is not a syntactically valid document of its format, Pipfile,
\* pyproject.toml and environment.yml alike.
C10_ScanFailsExactlyOnBadManifest ==
    (pc = "exit_err") <=> (\E i \in Range(visited) : BadManifest(FS[i]))

\* the constraint a record declares: the text from the first delimiter on,
\* read as a comparator (None when the record declares none)
DeclaredComparator(dep) ==
    LET i == FirstIn(dep.version_spec, Delims)
        req == IF i = 0 THEN None
               ELSE parse_version_spec(Drop(dep.version_spec, i - 1))
    IN IF IsSome(req) /\ Len(req[1].comparators) = 1
       THEN Some(req[1].comparators[1])
       ELSE None

\* a comparator's version, missing components read as zero
Padded(nums) ==
    <<nums[1], IF Len(nums) >= 2 THEN nums[2] ELSE 0, IF Len(nums) >= 3 THEN nums[3] ELSE 0>>

VersionLessEq(a, b) == a = b \/ VersionLess(a, b)

\* the first version above the range of a tilde or caret comparator
UpperBound(c) ==
    IF c.op = "~"
    THEN IF Len(c.nums) >= 2 THEN <<c.nums[1], c.nums[2] + 1, 0>> ELSE <<c.nums[1] + 1, 0, 0>>
    ELSE LET v == Padded(c.nums)
         IN IF v[1] > 0 THEN <<v[1] + 1, 0, 0>>
            ELSE IF v[2] > 0 THEN <<0, v[2] + 1, 0>>
            ELSE <<0, 0, v[3] + 1>>

\* some version >= v satisfies the comparator
SatisfiableFrom(c, v) ==
    IF c.op \in {">", ">="} THEN TRUE
    ELSE IF c.op = "<" THEN VersionLess(v, Padded(c.nums))
    ELSE IF c.op \in {"<=", "="} THEN VersionLessEq(v, Padded(c.nums))
    ELSE VersionLess(v, UpperBound(c))

\* the complete versions the records of a package declare
DeclaredVersions(deps) ==
    {Padded(DeclaredComparator(deps[i])[1].nums) :
        i \in {j \in 1..Len(deps) :
                  /\ IsSome(DeclaredComparator(deps[j]))
                  /\ Len(DeclaredComparator(deps[j])[1].nums) = 3}}

\* C14: when the rule 1 finding of a package suggests "Use version >=V", V is
\* the greatest version its recorded specs declare, and a version >= V can
\* satisfy every one of its recorded constraints.
C14_SuggestionSatisfiesAll ==
    Checked =>
        \A f \in BagToSet(conflicts) :
            (f.rule = "multiple_version_requirements" /\ IsSome(f.suggestion)) =>
                LET deps == dependencies[f.pkg]
                    V == f.suggestion[1]
                IN /\ V \in DeclaredVersions(deps)
                   /\ \A w \in DeclaredVersions(deps) : VersionLessEq(w, V)
                   /\ \A i \in 1..Len(deps) :
                          IsSome(DeclaredComparator(deps[i])) =>
                              SatisfiableFrom(DeclaredComparator(deps[i])[1], V)

SupportedFormats == {"text", "dot", "png"}

UnsupportedFormat == error = Some("Unsupported output format")

\* C11: generate_graph returns the "Unsupported output format" error for every
\* format other than text, dot and png and for none of these three; when it
\* does, main stops there: no file has been written, the rasterizer has not
\* been invoked, and no step follows.
C11_UnsupportedFormatAborts ==
    "format" \in DOMAIN args =>
        /\ UnsupportedFormat <=> args.format \notin SupportedFormats
        /\ UnsupportedFormat =>
               /\ pc = "exit_err"
               /\ written = <<>>
               /\ raster = <<>>
               /\ ~ENABLED Next

C11_Witness ==
    /\ UnsupportedFormat
    /\ args.format = "svg"
    /\ Len(graph.nodes) >= 2

\* the diagram text has been written to its file
DotWritten == /\ "format" \in DOMAIN args
              /\ args.format \in {"dot", "png"}
              /\ written # <<>>

\* the warning main prints for a rasterization that did not succeed
WarningFor(outcome) ==
    IF outcome = "not_found" THEN "Graphviz 'dot' command not found"
    ELSE IF outcome = "exit_failure" THEN "Failed to generate PNG. Error from 'dot':"
    ELSE "Failed to execute 'dot' command"

\* how far main is once the diagram is written
Rank(p) == IF p = "rasterize" THEN 1 ELSE IF p = "security" THEN 2 ELSE IF p = "exit_ok" THEN 3 ELSE 0

AfterDotWritten ==
    DotWritten =>
        /\ pc \in {"rasterize", "security", "exit_ok"}
        /\ error = None
        /\ Len(raster) <= 1
        /\ pc = "rasterize" => raster = <<>>
        /\ \A i \in 1..Len(raster) :
               raster[i].outcome # "success" =>
                   /\ WarningFor(raster[i].outcome) \in Range(stdout)
                   /\ "PNG graph generated" \notin Range(stdout)
        /\ pc = "exit_ok" =>
               (args.security <=> "Security checking is not implemented yet" \in Range(stdout))
        /\ pc # "exit_ok" => ENABLED Next

\* C12: once the diagram text is written, a failure of the rasterization (dot
\* not found, not executable, or exiting unsuccessfully) is reported as a
\* warning, is attempted at most once and never aborts the run: every further
\* step moves main forward, through the security notice when requested, to a
\* successful exit.
C12_RasterFailureNeverAborts ==
    /\ []AfterDotWritten
    /\ [][DotWritten => Rank(pc') > Rank(pc)]_vars
    /\ DotWritten ~> (pc = "exit_ok" /\ error = None)

C12_Witness ==
    /\ DotWritten
    /\ pc = "exit_ok"
    /\ Len(raster) = 1
    /\ raster[1].outcome = "exec_error"
    /\ args.security

\* the cluster the claim assigns to a package name
ExpectedCluster(name) ==
    IF name \in {TENSORFLOW, TORCH, JAX, TRANSFORMERS, SCIKIT_LEARN} THEN "cluster_ml"
    ELSE IF name \in {NUMPY, PANDAS, MATPLOTLIB, SEABORN} THEN "cluster_data"
    ELSE IF name \in {TQDM, PILLOW, TOKENIZERS} THEN "cluster_util"
    ELSE "cluster_other"

\* the places (cluster, position) of the diagram whose statement is for node idx
StatementsOf(idx) ==
    {<<c, k>> \in (1..Len(graph_output.clusters)) \X (1..Len(graph.nodes)) :
        /\ k <= Len(graph_output.clusters[c].nodes)
        /\ graph_output.clusters[c].nodes[k].id = idx}

\* C13: in the diagram every graph node has exactly one statement, in the
\* cluster its name selects; it is red with the spec count in its label iff its
\* package has more than one record, else orange iff its name is a
\* knowledge-base key, else of the normal colour.
C13_OneClusterAndStyle ==
    graph_output.kind = "dot" =>
        /\ \A c \in 1..Len(graph_output.clusters) :
               Len(graph_output.clusters[c].nodes) \in 1..Len(graph.nodes)
        /\ \A idx \in 0..(Len(graph.nodes) - 1) :
               LET name == graph.nodes[idx + 1]
                   n == Len(dependencies[name])
               IN /\ Cardinality(StatementsOf(idx)) = 1
                  /\ \A at \in StatementsOf(idx) :
                         LET cluster == graph_output.clusters[at[1]]
                             stmt == cluster.nodes[at[2]]
                         IN /\ cluster.name = ExpectedCluster(name)
                            /\ stmt.color = "#CC0000" <=> n > 1
                            /\ stmt.color = "#FF6600" <=>
                                   (n <= 1 /\ name \in DOMAIN known_conflicts)
                            /\ stmt.color = "#2D3436" <=>
                                   (n <= 1 /\ name \notin DOMAIN known_conflicts)
                            /\ stmt.label = IF n > 1
                                            THEN name \o <<"\n", "(">> \o NatToStr(n)
                                                      \o VERSIONS_SUFFIX
                                            ELSE name

C13_Witness ==
    /\ graph_output.kind = "dot"
    /\ Len(graph_output.clusters) >= 3
    /\ \E c1, c2, c3 \in 1..Len(graph_output.clusters) :
           /\ \E k \in 1..Len(graph_output.clusters[c1].nodes) :
                  /\ graph_output.clusters[c1].nodes[k].color = "#CC0000"
                  /\ graph.nodes[graph_output.clusters[c1].nodes[k].id + 1]
                         \in DOMAIN known_conflicts
           /\ \E k \in 1..Len(graph_output.clusters[c2].nodes) :
                  graph_output.clusters[c2].nodes[k].color = "#FF6600"
           /\ \E k \in 1..Len(graph_output.clusters[c3].nodes) :
                  graph_output.clusters[c3].nodes[k].color = "#2D3436"

====
